---- MODULE Spec2Model ----
(***************************************************************************)
(* Model of the daily-quota / cost ledger, the image-generation request     *)
(* lifecycle and the similarity check of src/ai_market_app.py.              *)
(*                                                                         *)
(* Every browser session runs the whole script top to bottom; sessions      *)
(* share the ledger file daily_usage.json and nothing else.  One script     *)
(* run is modelled as the steps                                             *)
(*   Load -> CallProvider -> ProviderReturn | ProviderRaise                  *)
(*        -> ShowAndRecord                                                   *)
(* and the steps of different sessions interleave freely.                   *)
(*                                                                         *)
(* Money is counted in hundredths of a dollar (0.02 $ is 2); the rounding   *)
(* of binary floating point is not modelled.  save_daily_data is one        *)
(* atomic step (the window between open(..., "w") and the write is not      *)
(* split).                                                                  *)
(***************************************************************************)
EXTENDS Integers, Sequences, FiniteSets, TLC

\* ------------------------------------------------------------------ bounds
MaxDate == 2
MaxRuns == 2
MaxRefs == 3
MaxThreshold == 6

\* ------------------------------------------------------- program constants
DAILY_LIMIT == 10
COST_PER_IMAGE == 2
MinOutputs == 1
MaxOutputs == 4
DefaultThreshold == 5

\* Two browser sessions on the same server directory.
Sessions == {"s1", "s2"}
Dates == 1..MaxDate

Max(a, b) == IF a >= b THEN a ELSE b
Min(a, b) == IF a <= b THEN a ELSE b

\* ---------------------------------------------------------- ledger records
\* A value of the ledger dictionary at one date: has = FALSE is a missing key.
NoRec == [has |-> FALSE, count |-> 0, cost |-> 0]
ZeroRec == [has |-> TRUE, count |-> 0, cost |-> 0]
EmptyData == [d \in Dates |-> NoRec]

\* Counts a ledger written by earlier runs may hold for the first date.
InitCounts == {8, 10}

\* --------------------------------------------------- images and their hashes
\* Reference images (Pixabay preview URLs) and the image the provider made.
\* A perceptual hash is the set of its bits that are 1.
RefUrls == {"ref_a", "ref_b", "ref_c"}
GenUrls == {"gen_x", "gen_y"}
PHash(url) ==
  CASE url = "ref_a" -> {}
    [] url = "ref_b" -> {1}
    [] url = "ref_c" -> {1, 2, 3, 4, 5, 6}
    [] url = "gen_x" -> {}
    [] url = "gen_y" -> {1, 2, 3}

\* imagehash: gen_hash - ref_hash is the number of differing bits.
HashDistance(a, b) == Cardinality((a \ b) \cup (b \ a))

RECURSIVE SeqsUpTo(_, _)
SeqsUpTo(S, n) ==
  IF n = 0 THEN {<<>>}
  ELSE LET shorter == SeqsUpTo(S, n - 1)
       IN shorter \cup {Append(q, x) : q \in shorter, x \in S}

RefSeqs == SeqsUpTo(RefUrls, MaxRefs)

\* The result of a call that may raise.
Raised == [raised |-> TRUE, warnings |-> <<>>]
Returned(w) == [raised |-> FALSE, warnings |-> w]

RECURSIVE SimilarityLoopStrict(_, _, _, _, _, _)
SimilarityLoopStrict(gen_hash, reference_urls, threshold, down, k, acc) ==
  IF k > Len(reference_urls) THEN Returned(acc)
  ELSE LET ref_url == reference_urls[k]
           distance == HashDistance(gen_hash, PHash(ref_url))
       IN IF ref_url \in down THEN Raised
          ELSE SimilarityLoopStrict(gen_hash, reference_urls, threshold, down, k + 1,
                 IF distance < threshold
                   THEN Append(acc, [ref_url |-> ref_url, distance |-> distance])
                   ELSE acc)

\* The loop of check_image_similarity over reference_urls[k..], warnings so
\* far in acc; down is the set of URLs that cannot be fetched or decoded.
RECURSIVE SimilarityLoop(_, _, _, _, _, _)
SimilarityLoop(gen_hash, reference_urls, threshold, down, k, acc) ==
  IF k > Len(reference_urls) THEN Returned(acc)
  ELSE LET ref_url == reference_urls[k]
           distance == HashDistance(gen_hash, PHash(ref_url))
       IN IF ref_url \in down THEN Raised
          ELSE SimilarityLoop(gen_hash, reference_urls, threshold, down, k + 1,
                 IF distance <= threshold
                   THEN Append(acc, [ref_url |-> ref_url, distance |-> distance])
                   ELSE acc)

check_image_similarity(generated_url, reference_urls, threshold, down) ==
  IF generated_url \in down THEN Raised
  ELSE SimilarityLoop(PHash(generated_url), reference_urls, threshold, down, 1, <<>>)

\* The slider values a run is tried with, and the numbers of images a
\* provider asked for n may return: none, one short of n, or n.
NumOutputs == {MinOutputs, MaxOutputs}
ProviderYields(n) == {0, Max(0, n - 1), n}

\* ------------------------------------------------------------ quota rules
\* remaining = max(0, 10 - count)
GetRemaining(count) == Max(0, DAILY_LIMIT - count)

QuotaReachedStrict(remaining) == remaining < 0
\* if remaining <= 0: the warning, and no generate button
QuotaReached(remaining) == remaining <= 0

\* actual_generate = min(num_outputs, remaining)
ActualGenerate(num_outputs, remaining) == Min(num_outputs, remaining)

RecordedCountAsked(n_urls, actual_generate) == actual_generate
\* The number of images the ledger is charged: len(urls).
RecordedCount(n_urls, actual_generate) == n_urls

record_usage_assign(rec, n) ==
  [rec EXCEPT !.count = n, !.cost = n * COST_PER_IMAGE]
\* daily_data[today_str]["count"] += n ; ["cost"] += n * COST_PER_IMAGE
record_usage(rec, n) ==
  [rec EXCEPT !.count = @ + n, !.cost = @ + n * COST_PER_IMAGE]

\* ------------------------------------------------------------------- state
VARIABLES
  today,      \* date.today()
  fileState,  \* daily_usage.json: "absent", "corrupt" (not JSON) or "ok"
  fileData,   \* its content when "ok": date -> record
  sess,       \* per session: the locals of its script run
  last,       \* what the run that ended last showed and did
  produced,   \* per date: images the provider has returned in all
  recorded,   \* per date: images charged by completed ledger updates
  nrec,       \* per date: number of completed ledger updates
  initData,   \* the ledger before the first run
  runs,       \* script runs started
  simIn,      \* inputs of a stand-alone similarity check
  simOut      \* its result

vars == <<today, fileState, fileData, sess, last, produced, recorded, nrec,
          initData, runs, simIn, simOut>>

Range(q) == {q[k] : k \in 1..Len(q)}

\* market_result as the market tab leaves it: not defined, or the preview
\* URLs of the sample images it found.
NoMarket == [has |-> FALSE, refs |-> <<>>]
MarketResults == {NoMarket, [has |-> TRUE, refs |-> <<"ref_c", "ref_b">>]}

\* The locals of a session between runs: a run that has ended keeps none.
\* calls counts the run's calls of the provider.
FreshSess ==
  [pc |-> "Idle", daily_data |-> EmptyData, today_str |-> 1, remaining |-> -1,
   actual_generate |-> 0, urls |-> 0, calls |-> 0]

\* A run's end as its user and the file system see it: the outcome shown, the
\* fault behind it, the provider calls made, whether the ledger was written,
\* whether remaining was 0 at the start, whether the provider returned fewer
\* images than asked, the warnings shown for the last image, and owed: the
\* references within the threshold among those that could be fetched when a
\* reference fetch failed.
NoRun ==
  [outcome |-> "None", fault |-> "none", calls |-> 0, ledger |-> "untouched",
   exhausted |-> FALSE, partial |-> FALSE, warnings |-> <<>>, owed |-> <<>>]

SimIdle == [generated_url |-> "gen_x", reference_urls |-> <<>>,
            threshold |-> DefaultThreshold, down |-> {}]
SimNone == [done |-> FALSE, raised |-> FALSE, warnings |-> <<>>]

\* The ledger file as earlier runs (or a damaged disk) may have left it.
InitFiles ==
  {[st |-> "absent", data |-> EmptyData], [st |-> "corrupt", data |-> EmptyData]}
  \cup {[st |-> "ok",
         data |-> [EmptyData EXCEPT ![1] =
                     [has |-> TRUE, count |-> c, cost |-> c * COST_PER_IMAGE]]]
        : c \in InitCounts}

AppInit(f) ==
  /\ today = 1
  /\ fileState = f.st
  /\ fileData = f.data
  /\ sess = [s \in Sessions |-> FreshSess]
  /\ last = NoRun
  /\ produced = [d \in Dates |-> f.data[d].count]
  /\ recorded = [d \in Dates |-> 0]
  /\ nrec = [d \in Dates |-> 0]
  /\ initData = f.data
  /\ runs = 0

Init ==
  /\ \E f \in InitFiles : AppInit(f)
  /\ simIn = SimIdle
  /\ simOut = SimNone

\* ------------------------------------------------------------ ledger file
\* load_daily_data: {} when the file does not exist; json.load raises on a
\* file that is not JSON, and nothing catches it.
load_daily_data ==
  IF fileState = "absent" THEN [raised |-> FALSE, data |-> EmptyData]
  ELSE IF fileState = "corrupt" THEN [raised |-> TRUE, data |-> EmptyData]
  ELSE [raised |-> FALSE, data |-> fileData]

\* save_daily_data: the file is rewritten whole from the session's dictionary.
save_daily_data(data) ==
  /\ fileState' = "ok"
  /\ fileData' = data

Quiet(s) == sess[s].pc = "Idle"

\* The run of s ends: its locals go, and what it showed is the last run's.
EndRun(s, shown) ==
  /\ sess' = [sess EXCEPT ![s] = FreshSess]
  /\ last' = shown

\* What a run of s shows that ends now with this outcome after this fault.
Shown(s, outcome, fault) ==
  [NoRun EXCEPT !.outcome = outcome, !.fault = fault, !.calls = sess[s].calls,
                !.exhausted = (sess[s].remaining = 0)]

\* --------------------------------------------------------------- one run
\* Lines 145-157, in a run in which the user asks for images.  The script
\* starts (a rerun starts it again): it reads the ledger, creates today's
\* record in its own dictionary, computes remaining and, when quota is left,
\* clamps the requested count.
Load(s) ==
  /\ Quiet(s)
  /\ runs < MaxRuns
  /\ runs' = runs + 1
  /\ \E num_outputs \in NumOutputs :
       LET ld == load_daily_data
           daily_data == IF ld.data[today].has THEN ld.data
                         ELSE [ld.data EXCEPT ![today] = ZeroRec]
           remaining == GetRemaining(daily_data[today].count)
       IN IF ld.raised
            THEN EndRun(s, [NoRun EXCEPT !.outcome = "Crashed",
                                         !.fault = "ledger_corrupt"])
          ELSE IF QuotaReached(remaining)
            THEN EndRun(s, [NoRun EXCEPT !.outcome = "QuotaExceeded",
                                         !.exhausted = (remaining = 0)])
          ELSE /\ sess' = [sess EXCEPT ![s] =
                     [FreshSess EXCEPT
                        !.pc = "QuotaChecked",
                        !.daily_data = daily_data,
                        !.today_str = today,
                        !.remaining = remaining,
                        !.actual_generate = ActualGenerate(num_outputs, remaining)]]
               /\ last' = last
  /\ UNCHANGED <<today, fileState, fileData, produced, recorded, nrec, initData,
                 simIn, simOut>>

\* Line 160, generate_image lines 67-77: client.run is entered.
CallProvider(s) ==
  /\ sess[s].pc = "QuotaChecked"
  /\ sess' = [sess EXCEPT ![s].pc = "Generating", ![s].calls = @ + 1]
  /\ UNCHANGED <<today, fileState, fileData, last, produced, recorded, nrec,
                 initData, runs, simIn, simOut>>

\* generate_image lines 78-79: the provider returns at most the number of
\* images it was asked for.
ProviderReturn(s) ==
  /\ sess[s].pc = "Generating"
  /\ \E k \in ProviderYields(sess[s].actual_generate) :
       /\ sess' = [sess EXCEPT ![s].pc = "Processing", ![s].urls = k]
       /\ produced' = [produced EXCEPT ![sess[s].today_str] = @ + k]
  /\ UNCHANGED <<today, fileState, fileData, last, recorded, nrec, initData,
                 runs, simIn, simOut>>

ProviderRaiseCharged(s) ==
  /\ sess[s].pc = "Generating"
  /\ LET d == sess[s].today_str
         data == [sess[s].daily_data EXCEPT ![d] =
                    record_usage(@, sess[s].actual_generate)]
     IN /\ EndRun(s, [Shown(s, "GenerationFailed", "provider")
                        EXCEPT !.ledger = "updated"])
        /\ save_daily_data(data)
  /\ UNCHANGED <<today, produced, recorded, nrec, initData, runs, simIn, simOut>>

\* client.run raises: lines 191-192 show the error; nothing else runs.
ProviderRaise(s) ==
  /\ sess[s].pc = "Generating"
  /\ EndRun(s, Shown(s, "GenerationFailed", "provider"))
  /\ UNCHANGED <<today, fileState, fileData, produced, recorded, nrec, initData,
                 runs, simIn, simOut>>

\* The references within the threshold among those that can be fetched.
Owed(url, reference_urls, down) ==
  SimilarityLoop(PHash(url), SelectSeq(reference_urls, LAMBDA r : r \notin down),
                 DefaultThreshold, {}, 1, <<>>).warnings

\* Lines 185-189: the loop is over; the session's dictionary is charged for
\* the images and written over the file.
RecordUsage(s, warnings) ==
  LET d == sess[s].today_str
      n == RecordedCount(sess[s].urls, sess[s].actual_generate)
      data == [sess[s].daily_data EXCEPT ![d] = record_usage(@, n)]
  IN /\ EndRun(s, [Shown(s, "Completed", "none") EXCEPT
                     !.ledger = "updated",
                     !.partial = (sess[s].urls < sess[s].actual_generate),
                     !.warnings = warnings])
     /\ save_daily_data(data)
     /\ recorded' = [recorded EXCEPT ![d] = @ + n]
     /\ nrec' = [nrec EXCEPT ![d] = @ + 1]

\* An exception inside the try block: lines 191-192 show it and the run ends;
\* lines 185-189 are skipped.
Except(s, fault, owed) ==
  /\ EndRun(s, [Shown(s, "GenerationFailed", fault) EXCEPT !.owed = owed])
  /\ UNCHANGED <<fileState, fileData, recorded, nrec>>

\* Lines 161-189, the rest of the try block once the provider has returned:
\* the loop over the produced images, then the ledger update.  Each pass
\* downloads the image (line 166) and, when the market tab left a
\* market_result in this run, checks it against the reference images;
\* warnings keeps the last image's.  The loop ends in one of three ways: a
\* download fails; every pass goes through with no market_result; or there
\* is a market_result and the similarity check of url, the image of the
\* last pass run, decides.
ShowAndRecord(s) ==
  /\ sess[s].pc = "Processing"
  /\ IF sess[s].urls = 0
       THEN RecordUsage(s, <<>>)
       ELSE \/ Except(s, "download", <<>>)
            \/ RecordUsage(s, <<>>)
            \/ \E url \in GenUrls, mr \in MarketResults \ {NoMarket} :
               \E down \in SUBSET ({url} \cup Range(mr.refs)) :
                 LET res == check_image_similarity(url, mr.refs, DefaultThreshold, down)
                 IN IF res.raised
                      THEN IF url \in down
                             THEN Except(s, "generated_fetch", <<>>)
                             ELSE Except(s, "reference", Owed(url, mr.refs, down))
                      ELSE RecordUsage(s, res.warnings)
  /\ UNCHANGED <<today, produced, initData, runs, simIn, simOut>>

\* Midnight: date.today() moves on.
NextDay ==
  /\ today < MaxDate
  /\ today' = today + 1
  /\ UNCHANGED <<fileState, fileData, sess, last, produced, recorded, nrec,
                 initData, runs, simIn, simOut>>

\* Sessions run concurrently: their steps interleave.
Next ==
  \/ \E s \in Sessions : Load(s)
  \/ \E s \in Sessions : CallProvider(s)
  \/ \E s \in Sessions : ProviderReturn(s)
  \/ \E s \in Sessions : ProviderRaise(s)
  \/ \E s \in Sessions : ShowAndRecord(s)
  \/ NextDay

Spec == Init /\ [][Next]_vars

\* Requests one after another: a session steps only while no other session
\* is in the middle of a run.
Alone(s) == \A t \in Sessions \ {s} : Quiet(t)

NextSeq ==
  \/ \E s \in Sessions : Alone(s) /\ Load(s)
  \/ \E s \in Sessions : Alone(s) /\ CallProvider(s)
  \/ \E s \in Sessions : Alone(s) /\ ProviderReturn(s)
  \/ \E s \in Sessions : Alone(s) /\ ProviderRaise(s)
  \/ \E s \in Sessions : Alone(s) /\ ShowAndRecord(s)
  \/ NextDay

SpecSeq == Init /\ [][NextSeq]_vars

\* ------------------------------------------- the similarity check alone
\* check_image_similarity called once on inputs of every shape: a generated
\* image, a sequence of references, a threshold, and the URLs out of reach.
Thresholds == 0..MaxThreshold

SimInputs ==
  [generated_url : GenUrls, reference_urls : RefSeqs, threshold : Thresholds,
   down : SUBSET RefUrls]

InitSim ==
  /\ AppInit([st |-> "absent", data |-> EmptyData])
  /\ simIn \in SimInputs
  /\ simOut = SimNone

SimCheck ==
  /\ ~simOut.done
  /\ LET res == check_image_similarity(simIn.generated_url, simIn.reference_urls,
                                       simIn.threshold, simIn.down)
     IN simOut' = [done |-> TRUE, raised |-> res.raised, warnings |-> res.warnings]
  /\ UNCHANGED <<today, fileState, fileData, sess, last, produced, recorded, nrec,
                 initData, runs, simIn>>

SpecSim == InitSim /\ [][SimCheck]_vars

\* ------------------------------------------------------------------ claims
AllQuiet == \A s \in Sessions : Quiet(s)

\* The record of date d that the completed ledger updates add up to.
Accrued(d) ==
  [has |-> TRUE,
   count |-> initData[d].count + recorded[d],
   cost |-> initData[d].cost + recorded[d] * COST_PER_IMAGE]

\* C1: with sessions generating concurrently against the same ledger file,
\* no update is lost: once all of them have finished, the persisted count of
\* every date is the count before they started plus the images the sessions
\* recorded (what their provider calls returned), and the persisted cost is
\* the prior cost plus that sum times the unit cost.
C1_NoLostUpdate ==
  AllQuiet =>
    \A d \in Dates : nrec[d] > 0 => fileState = "ok" /\ fileData[d] = Accrued(d)

\* C2: when the remaining quota read at the start of a request is 0, the
\* provider is called zero times in that request and the request ends in the
\* quota-exceeded outcome.
C2_NoCallWhenExhausted ==
  /\ \A s \in Sessions : sess[s].remaining = 0 => sess[s].calls = 0
  /\ last.exhausted => last.calls = 0 /\ last.outcome = "QuotaExceeded"

C2_Witness ==
  /\ last.exhausted
  /\ last.outcome = "QuotaExceeded"
  /\ fileState = "ok"
  /\ fileData[today].count >= DAILY_LIMIT

\* C3: the images the provider produces for one date, summed over every
\* request of that date, sequential or concurrent, never exceed the daily
\* limit of 10.
C3_DailyLimit == \A d \in Dates : produced[d] <= DAILY_LIMIT

\* C4: the ledger increment of a request is never greater than the number of
\* images the provider returned in it: in the step that ends a run, either
\* the file is left as it was, or the count it now holds for the run's date
\* exceeds the count the run read at its start by at most the number of
\* images returned, also when that is fewer than asked for.
C4_IncrementBounded ==
  [][\A s \in Sessions :
       (sess[s].pc # "Idle" /\ sess'[s].pc = "Idle") =>
         \/ fileState' = fileState /\ fileData' = fileData
         \/ /\ fileState' = "ok"
            /\ fileData'[sess[s].today_str].count
                 - sess[s].daily_data[sess[s].today_str].count <= sess[s].urls]_vars

C4_Witness ==
  /\ last.outcome = "Completed"
  /\ last.partial
  /\ last.ledger = "updated"
  /\ \E d \in Dates : recorded[d] > 0

\* C5: additivity.  With requests one after another, after k ledger updates
\* on a date d with image counts n_1..n_k, the persisted record of d has the
\* count it started with plus the sum of the n_i and the cost it started with
\* plus that sum times the unit cost; a date with no update keeps its record.
C5_Additive ==
  \A d \in Dates :
    /\ nrec[d] > 0 => fileState = "ok" /\ fileData[d] = Accrued(d)
    /\ nrec[d] = 0 /\ fileState = "ok" => fileData[d] = initData[d]

C5_Witness ==
  /\ MaxDate >= 2
  /\ ~initData[2].has
  /\ nrec[2] >= 2
  /\ recorded[2] >= 2
  /\ fileData[2].count = recorded[2]
  /\ initData[1].has
  /\ fileData[1] = initData[1]

\* C6: when a reference image cannot be fetched during the similarity check
\* of a produced image, only that reference is skipped: the warnings for the
\* reachable references within the threshold are still shown, the request
\* does not fail, and the ledger is still updated for the images produced.
C6_ReferenceFaultIsolated ==
  last.fault = "reference" =>
    /\ last.outcome = "Completed"
    /\ last.ledger = "updated"
    /\ last.warnings = last.owed

\* C7: when the provider call raises, the request writes nothing to the
\* ledger file (the persisted count and cost stay as they were) and ends in
\* the generation-failed outcome: no step of a run up to and including the
\* provider's error changes the file.
C7_ProviderErrorLeavesLedger ==
  [][\A s \in Sessions :
       /\ (sess[s].pc \in {"Idle", "QuotaChecked"} /\ sess'[s] # sess[s]) =>
            fileState' = fileState /\ fileData' = fileData
       /\ (sess[s].pc = "Generating" /\ sess'[s].pc = "Idle") =>
            /\ fileState' = fileState /\ fileData' = fileData
            /\ last'.outcome = "GenerationFailed"
            /\ last'.fault = "provider"
            /\ last'.ledger = "untouched"]_vars

C7_Witness ==
  /\ last.fault = "provider"
  /\ last.outcome = "GenerationFailed"
  /\ last.calls = 1
  /\ fileState = "ok"
  /\ fileData = initData

\* C8: every request that reaches Generating passes through LedgerUpdated
\* (the ledger is written) before it is done, also when the provider failed
\* or produced nothing.
C8_AlwaysLedgerUpdated == last.calls > 0 => last.ledger = "updated"

\* C9: when the ledger file exists but is corrupt, loading it does not crash:
\* the ledger is taken as empty, today's record is count 0 and cost 0,
\* remaining is the full daily limit, and the request proceeds.
C9_CorruptLedgerTolerated ==
  /\ last.outcome # "Crashed"
  /\ fileState = "corrupt" =>
       \A s \in Sessions :
         sess[s].pc # "Idle" =>
           /\ sess[s].remaining = DAILY_LIMIT
           /\ sess[s].daily_data[sess[s].today_str] = ZeroRec

\* The distance of a reference to the generated image of the check.
SimDistance(ref_url) ==
  HashDistance(PHash(simIn.generated_url), PHash(ref_url))

\* The references within the threshold, in the order they were supplied.
SimWithin ==
  SelectSeq(simIn.reference_urls, LAMBDA r : SimDistance(r) <= simIn.threshold)

====
